---- MODULE Spec2Model ----
(***************************************************************************)
(* A model of the ChatKit starter backend:                                 *)
(*   - StarterChatServer.respond (server.py): assemble the recent thread   *)
(*     items, relay the agent stream, collect container file citations,    *)
(*     re-upload them one by one and emit the download-links message;      *)
(*   - upload_container_file_to_blob (server.py);                          *)
(*   - chatkit_endpoint and get_container_file_content (main.py).          *)
(* The in-memory store (memory_store.py) is modelled from its contract.    *)
(***************************************************************************)
EXTENDS Integers, Sequences, FiniteSets, TLC

VARIABLES
    environ,          \* os.environ, as far as the program reads it
    uuid_counter,     \* number of uuid.uuid4() values drawn so far
    thread_exists,    \* MemoryStore: the thread has been created
    thread_items,     \* MemoryStore: the thread's items in append order
    pc,               \* respond: position of the generator
    context,          \* respond: context["user_id"]
    agent_input,      \* respond: what Runner.run_streamed was given
    produced,         \* events the agent stream has produced so far
    event,            \* respond: the loop variable of the async for
    out,              \* events respond has yielded to its caller
    raw_responses,    \* result.raw_responses
    container_files,  \* respond: container_files
    idx,              \* respond: position of the upload loop (1-based)
    links,            \* respond: links
    upload,           \* upload_container_file_to_blob: position of the call
    results,          \* what each finished upload call returned
    emitted,          \* respond: synthesized events yielded so far
    extract_failed,   \* respond: the citation extraction raised
    trace,            \* the external operations of the request, in order
    closed_at,        \* Len(trace), Len(out), pc when the consumer went away
    cookie_jar,       \* the browser's user_id cookie
    requests,         \* /chatkit requests handled: cookie, context, Set-Cookie
    file_calls        \* file-content requests handled: origin answer, response

relay_vars == <<pc, context, agent_input, produced, event, out, raw_responses,
                container_files, idx, links, upload, results, emitted,
                extract_failed, trace, closed_at>>
store_vars == <<thread_exists, thread_items>>
http_vars == <<cookie_jar, requests, file_calls>>
vars == <<environ, uuid_counter, store_vars, relay_vars, http_vars>>

----------------------------------------------------------------------------
(* Bounds of the model *)

MaxItems == 45
MaxEvents == 2
MaxResponses == 2
MaxRequests == 3
MaxFileCalls == 1

(* Program constants *)

MAX_RECENT_ITEMS == 30
HTTP_400 == 400

----------------------------------------------------------------------------
(* Values *)

None == [none |-> TRUE]
Uuid(n) == [uuid |-> n]
EmptyStr == [str |-> ""]

Has(obj, name) == name \in DOMAIN obj

Reverse(s) == [i \in 1..Len(s) |-> s[Len(s) + 1 - i]]

Min(a, b) == IF a < b THEN a ELSE b

SeqsUpTo(S, n) == UNION {[1..k -> S] : k \in 0..n}

USERS == {"user_a", "user_b"}
THREAD_OWNER == "user_a"

ENVIRONS == { [PATH |-> "/usr/bin"],
              [PATH |-> "/usr/bin", OPENAI_API_KEY |-> ""],
              [PATH |-> "/usr/bin", OPENAI_API_KEY |-> "sk-test"] }

----------------------------------------------------------------------------
(* MemoryStore (memory_store.py), from its contract: a thread's items are   *)
(* kept in append order; a page is a bounded slice in the requested order,  *)
(* visible only to the thread's owner.                                      *)

Item(n) == [id |-> n, thread_id |-> "thr_1"]

Items(k) == [i \in 1..k |-> Item(i)]

PositionOf(seq, item_id) ==
    IF \E i \in 1..Len(seq) : seq[i].id = item_id
    THEN CHOOSE i \in 1..Len(seq) : seq[i].id = item_id
    ELSE 0

load_thread_items(after, limit, order, ctx) ==
    LET visible == IF thread_exists /\ ctx = THREAD_OWNER THEN thread_items ELSE <<>>
        ordered == IF order = "desc" THEN Reverse(visible) ELSE visible
        start == IF after = None THEN 1 ELSE PositionOf(ordered, after.id) + 1
        stop == Min(start + limit - 1, Len(ordered))
        data == SubSeq(ordered, start, stop)
    IN  [ data |-> data,
          has_more |-> stop < Len(ordered),
          after |-> IF stop < Len(ordered) /\ data # <<>>
                    THEN [id |-> data[Len(data)].id] ELSE None ]

create_thread ==
    /\ pc = "IDLE"
    /\ ~thread_exists
    /\ thread_exists' = TRUE
    /\ thread_items' = <<>>
    /\ UNCHANGED <<environ, uuid_counter, relay_vars, http_vars>>

add_thread_item ==
    /\ pc = "IDLE"
    /\ thread_exists
    /\ Len(thread_items) < MaxItems
    /\ thread_items' = Append(thread_items, Item(Len(thread_items) + 1))
    /\ UNCHANGED <<environ, uuid_counter, thread_exists, relay_vars, http_vars>>

delete_thread ==
    /\ pc = "IDLE"
    /\ thread_exists
    /\ thread_exists' = FALSE
    /\ thread_items' = <<>>
    /\ UNCHANGED <<environ, uuid_counter, relay_vars, http_vars>>

----------------------------------------------------------------------------
(* StarterChatServer.respond: assembling the agent input *)

\* chatkit.agents.simple_to_agent_input: one input item per thread item,
\* in the order given.
simple_to_agent_input(items) ==
    [i \in 1..Len(items) |-> [role |-> "input", from_item |-> items[i].id]]

RecentItemsUnreversed(items_page) == items_page.data

RecentItems(items_page) == Reverse(items_page.data)

StoreReadOp == [op |-> "load_thread_items", after |-> None,
                limit |-> MAX_RECENT_ITEMS, order |-> "desc"]

RunOp == [op |-> "run_streamed"]

StartTrace == <<StoreReadOp, RunOp>>

\* respond up to its first suspension in the async for.  ChatKitServer.process
\* has resolved the thread under the request's context before it calls respond.
StartRespond(ctx) ==
    /\ pc = "IDLE"
    /\ thread_exists
    /\ ctx = THREAD_OWNER
    /\ LET items_page == load_thread_items(StoreReadOp.after, StoreReadOp.limit,
                                           StoreReadOp.order, ctx)
           items == RecentItems(items_page)
       IN  agent_input' = simple_to_agent_input(items)
    /\ context' = ctx
    /\ trace' = StartTrace
    /\ pc' = "STREAMING"
    /\ UNCHANGED <<environ, uuid_counter, store_vars, produced, event, out,
                   raw_responses, container_files, idx, links, upload, results,
                   emitted, extract_failed, closed_at, http_vars>>

----------------------------------------------------------------------------
(* StarterChatServer.respond: relaying the agent stream *)

\* What stream_agent_response produces: its k-th event.  The items of a run are
\* announced and completed one after the other.
SourceEvent(k) ==
    [type |-> IF k % 2 = 1 THEN "ThreadItemAddedEvent" ELSE "ThreadItemDoneEvent",
     item |-> [id |-> [name |-> "msg", n |-> (k + 1) \div 2]]]

IsSourceEvent(e) == Has(e.item.id, "name")

YieldOp(e) == [op |-> "yield", event |-> e]

RelayEventTwice(yielded, e) == yielded \o <<e, e>>

\* yield event
RelayEvent(yielded, e) == Append(yielded, e)

\* async for event in stream_agent_response(...): the stream hands over an event
StreamProduce ==
    /\ pc = "STREAMING"
    /\ event = None
    /\ Len(produced) < MaxEvents
    /\ produced' = Append(produced, SourceEvent(Len(produced) + 1))
    /\ event' = SourceEvent(Len(produced) + 1)
    /\ UNCHANGED <<environ, uuid_counter, store_vars, pc, context, agent_input,
                   out, raw_responses, container_files, idx, links, upload,
                   results, emitted, extract_failed, trace, closed_at, http_vars>>

\* the loop body: yield event, then wait for the next one
YieldEvent ==
    /\ pc = "STREAMING"
    /\ event # None
    /\ out' = RelayEvent(out, event)
    /\ trace' = Append(trace, YieldOp(event))
    /\ event' = None
    /\ UNCHANGED <<environ, uuid_counter, store_vars, pc, context, agent_input,
                   produced, raw_responses, container_files, idx, links, upload,
                   results, emitted, extract_failed, closed_at, http_vars>>

\* the stream raises: nothing in respond catches it
StreamError ==
    /\ pc = "STREAMING"
    /\ event = None
    /\ pc' = "FAILED"
    /\ UNCHANGED <<environ, uuid_counter, store_vars, context, agent_input,
                   produced, event, out, raw_responses, container_files, idx,
                   links, upload, results, emitted, extract_failed, trace,
                   closed_at, http_vars>>

----------------------------------------------------------------------------
(* result.raw_responses: loosely typed, every attribute possibly absent *)

CitA == [type |-> "container_file_citation", container_id |-> "cntr_1",
         file_id |-> "cfile_a", filename |-> "a.csv"]
CitB == [type |-> "container_file_citation", container_id |-> "cntr_1",
         file_id |-> "cfile_b", filename |-> "b.png"]
UrlCit == [type |-> "url_citation", url |-> "https://example.com"]
NoFileId == [type |-> "container_file_citation", container_id |-> "cntr_1",
             filename |-> "c.txt"]
EmptyName == [type |-> "container_file_citation", container_id |-> "cntr_1",
              file_id |-> "cfile_d", filename |-> ""]

ToolCallItem == [type |-> "code_interpreter_call"]

Message(annotations) ==
    [type |-> "message",
     content |-> << [type |-> "refusal"],
                    [type |-> "output_text", annotations |-> <<>>],
                    [type |-> "output_text", annotations |-> annotations] >>]

Response(annotations) == [output |-> <<ToolCallItem, Message(annotations)>>]

RESPONSES ==
    { [id |-> "resp_no_output"],
      [output |-> <<>>],
      Response(<<CitA>>),
      Response(<<UrlCit, NoFileId, CitB, EmptyName>>) }

\* what result.raw_responses can be when the stream has ended
RAW_RESPONSES == SeqsUpTo(RESPONSES, MaxResponses)

\* the sequence getattr(obj, name, None) gives, empty when it is falsy
Attr(obj, name) == IF Has(obj, name) THEN obj[name] ELSE <<>>

IsContainerFile(annotation) ==
    /\ Has(annotation, "type")
    /\ annotation.type = "container_file_citation"
    /\ Has(annotation, "container_id") /\ annotation.container_id # ""
    /\ Has(annotation, "file_id") /\ annotation.file_id # ""
    /\ Has(annotation, "filename") /\ annotation.filename # ""

FileInfo(annotation) ==
    [container_id |-> annotation.container_id, file_id |-> annotation.file_id,
     filename |-> annotation.filename]

RECURSIVE Dedupe(_)
Dedupe(files) ==
    IF files = <<>> THEN <<>>
    ELSE LET rest == Dedupe(SubSeq(files, 1, Len(files) - 1))
             last == files[Len(files)]
         IN  IF \E i \in 1..Len(rest) :
                    /\ rest[i].container_id = last.container_id
                    /\ rest[i].file_id = last.file_id
             THEN rest ELSE Append(rest, last)

\* the four nested for loops, from the annotation at place (r, o, c, a) on: a
\* level whose attribute is absent or empty is skipped ("if not ...: continue")
RECURSIVE FilesFrom(_, _, _, _, _)
FilesFrom(responses, r, o, c, a) ==
    IF r > Len(responses) THEN <<>>
    ELSE IF o > Len(Attr(responses[r], "output"))
         THEN FilesFrom(responses, r + 1, 1, 1, 1)
    ELSE IF c > Len(Attr(responses[r].output[o], "content"))
         THEN FilesFrom(responses, r, o + 1, 1, 1)
    ELSE IF a > Len(Attr(responses[r].output[o].content[c], "annotations"))
         THEN FilesFrom(responses, r, o, c + 1, 1)
    ELSE (IF IsContainerFile(responses[r].output[o].content[c].annotations[a])
          THEN <<FileInfo(responses[r].output[o].content[c].annotations[a])>>
          ELSE <<>>)
         \o FilesFrom(responses, r, o, c, a + 1)

ExtractDistinctFiles(responses) == Dedupe(FilesFrom(responses, 1, 1, 1, 1))

\* the loops over raw_responses, run to the end
ExtractContainerFiles(responses) == FilesFrom(responses, 1, 1, 1, 1)

\* the async for ends: the run's raw responses are complete
StreamEnd(responses) ==
    /\ pc = "STREAMING"
    /\ event = None
    /\ raw_responses' = responses
    /\ pc' = "INSPECTING_ANNOTATIONS"
    /\ UNCHANGED <<environ, uuid_counter, store_vars, context, agent_input,
                   produced, event, out, container_files, idx, links, upload,
                   results, emitted, extract_failed, trace, closed_at, http_vars>>

\* if container_files:
AfterInspect(files) == IF files # <<>> THEN "UPLOADING" ELSE "SKIP"

OnExtractErrorPropagates(files) == "FAILED"

\* except Exception as e: logger.warning(...), and respond goes on
OnExtractError(files) == AfterInspect(files)

\* try: ... except Exception: the extraction runs to its end, or raises after
\* it has appended the first n citations; what was appended stays.
Inspect(n, raised) ==
    /\ pc = "INSPECTING_ANNOTATIONS"
    /\ LET found == ExtractContainerFiles(raw_responses)
       IN  /\ n \in 0..Len(found)
           /\ ~raised => n = Len(found)
           /\ container_files' = SubSeq(found, 1, n)
    /\ extract_failed' = raised
    /\ idx' = 1
    /\ links' = <<>>
    /\ pc' = IF raised THEN OnExtractError(container_files')
             ELSE AfterInspect(container_files')
    /\ UNCHANGED <<environ, uuid_counter, store_vars, context, agent_input,
                   produced, event, out, raw_responses, upload, results, emitted,
                   trace, closed_at, http_vars>>

----------------------------------------------------------------------------
(* upload_container_file_to_blob and the upload loop of respond *)

\* os.environ.get("OPENAI_API_KEY") followed by "if not api_key"
ApiKeyMissing == ~Has(environ, "OPENAI_API_KEY") \/ environ.OPENAI_API_KEY = ""

UploadCallOp(i) == [op |-> "upload_call", i |-> i]
GetOp(file_info) == [op |-> "GET", container_id |-> file_info.container_id,
                     file_id |-> file_info.file_id]
PutOp(blob_path) == [op |-> "put", blob_path |-> blob_path]
UploadReturnOp(i, blob_url) == [op |-> "upload_return", i |-> i, blob_url |-> blob_url]

DOWNLOAD_OUTCOMES == {"ok", "http_status_error", "exception"}
PUT_OUTCOMES == {"url", "no_url", "exception"}

BlobPath(n, filename) == [dir |-> "chatkit-files", uuid |-> n, filename |-> filename]

\* what the call returns once the download has answered
UploadResult(download, put, blob_path) ==
    IF download = "ok" /\ put = "url" THEN [url |-> blob_path] ELSE None

Link(filename, blob_url) == [filename |-> filename, url |-> blob_url]

AppendLinkAlways(ls, filename, blob_url) == Append(ls, Link(filename, blob_url))

\* if blob_url: links.append(...)
AppendLink(ls, filename, blob_url) ==
    IF blob_url # None THEN Append(ls, Link(filename, blob_url)) ELSE ls

ShouldEmitAlways(ls) == TRUE

\* if links:
ShouldEmit(ls) == ls # <<>>

\* the position after the upload of container_files[i] has returned
AfterUpload(i, ls) ==
    IF i < Len(container_files) THEN "UPLOADING"
    ELSE IF ShouldEmit(ls) THEN "EMIT_SYNTHESIZED" ELSE "SKIP"

MayStartUploadAnyTime(u) == TRUE

\* the loop awaits each call before it makes the next
MayStartUpload(u) == u = "idle"

\* for file_info in container_files: blob_url = await upload_container_file_to_blob(...)
\* up to the download request; without an API key the call returns None at once.
UploadCall ==
    /\ pc = "UPLOADING"
    /\ MayStartUpload(upload)
    /\ idx <= Len(container_files)
    /\ LET file_info == container_files[idx]
       IN  IF ApiKeyMissing
           THEN /\ trace' = trace \o <<UploadCallOp(idx), UploadReturnOp(idx, None)>>
                /\ results' = Append(results, None)
                /\ links' = AppendLink(links, file_info.filename, None)
                /\ idx' = idx + 1
                /\ pc' = AfterUpload(idx, links')
                /\ UNCHANGED upload
           ELSE /\ trace' = trace \o <<UploadCallOp(idx), GetOp(file_info)>>
                /\ upload' = "downloading"
                /\ UNCHANGED <<results, links, idx, pc>>
    /\ UNCHANGED <<environ, uuid_counter, store_vars, context, agent_input,
                   produced, event, out, raw_responses, container_files, emitted,
                   extract_failed, closed_at, http_vars>>

\* the download answers; on success the bytes are put to the blob store (a
\* blocking call); the call returns and the loop body finishes.
UploadReturn(download, put) ==
    /\ pc = "UPLOADING"
    /\ upload = "downloading"
    /\ download # "ok" => put = "exception"
    /\ LET file_info == container_files[idx]
           blob_path == BlobPath(uuid_counter + 1, file_info.filename)
           blob_url == UploadResult(download, put, blob_path)
       IN  /\ trace' = trace \o (IF download = "ok" THEN <<PutOp(blob_path)>> ELSE <<>>)
                             \o <<UploadReturnOp(idx, blob_url)>>
           /\ uuid_counter' = IF download = "ok" THEN uuid_counter + 1 ELSE uuid_counter
           /\ results' = Append(results, blob_url)
           /\ links' = AppendLink(links, file_info.filename, blob_url)
    /\ upload' = "idle"
    /\ idx' = idx + 1
    /\ pc' = AfterUpload(idx, links')
    /\ UNCHANGED <<environ, store_vars, context, agent_input, produced, event, out,
                   raw_responses, container_files, emitted, extract_failed,
                   closed_at, http_vars>>

----------------------------------------------------------------------------
(* respond: the download-links message *)

DownloadItem(n, ls) ==
    [id |-> [prefix |-> "dl_", uuid |-> n],
     thread_id |-> "thr_1",
     content |-> << [type |-> "output_text",
                     text |-> [header |-> "download", links |-> ls],
                     annotations |-> <<>>] >>]

ThreadItemAddedEvent(item) == [type |-> "ThreadItemAddedEvent", item |-> item]
ThreadItemDoneEvent(item) == [type |-> "ThreadItemDoneEvent", item |-> item]

\* yield ThreadItemAddedEvent(item=download_item)
EmitAdded ==
    /\ pc = "EMIT_SYNTHESIZED"
    /\ emitted = 0
    /\ uuid_counter' = uuid_counter + 1
    /\ LET e == ThreadItemAddedEvent(DownloadItem(uuid_counter', links))
       IN  /\ out' = Append(out, e)
           /\ trace' = Append(trace, YieldOp(e))
    /\ emitted' = 1
    /\ UNCHANGED <<environ, store_vars, pc, context, agent_input, produced, event,
                   raw_responses, container_files, idx, links, upload, results,
                   extract_failed, closed_at, http_vars>>

\* yield ThreadItemDoneEvent(item=download_item)
EmitDone ==
    /\ pc = "EMIT_SYNTHESIZED"
    /\ emitted = 1
    /\ LET e == ThreadItemDoneEvent(out[Len(out)].item)
       IN  /\ out' = Append(out, e)
           /\ trace' = Append(trace, YieldOp(e))
    /\ emitted' = 2
    /\ UNCHANGED <<environ, uuid_counter, store_vars, pc, context, agent_input,
                   produced, event, raw_responses, container_files, idx, links,
                   upload, results, extract_failed, closed_at, http_vars>>

\* the generator runs to its end
Finish ==
    /\ \/ pc = "SKIP"
       \/ pc = "EMIT_SYNTHESIZED" /\ emitted = 2
    /\ pc' = "DONE"
    /\ UNCHANGED <<environ, uuid_counter, store_vars, context, agent_input,
                   produced, event, out, raw_responses, container_files, idx,
                   links, upload, results, emitted, extract_failed, trace,
                   closed_at, http_vars>>

\* where respond is suspended: awaiting the stream or at a yield of the loop,
\* awaiting the download, or at one of the two final yields
Suspended ==
    \/ pc = "STREAMING" /\ event = None
    \/ pc = "UPLOADING" /\ upload = "downloading"
    \/ pc = "EMIT_SYNTHESIZED" /\ emitted \in {1, 2}

AfterCloseIgnored(at) == at

\* GeneratorExit / CancelledError is raised at the suspension point and leaves
\* respond: no except clause or finally block of respond handles it.
AfterClose(at) == "CANCELLED"

\* the consumer disconnects: the generator is closed or its task cancelled
Close ==
    /\ Suspended
    /\ closed_at = None
    /\ closed_at' = [pc |-> pc, trace |-> Len(trace), out |-> Len(out)]
    /\ pc' = AfterClose(pc)
    /\ UNCHANGED <<environ, uuid_counter, store_vars, context, agent_input,
                   produced, event, out, raw_responses, container_files, idx,
                   links, upload, results, emitted, extract_failed, trace,
                   http_vars>>

----------------------------------------------------------------------------
(* main.py: chatkit_endpoint *)

ONE_YEAR == 365 * 24 * 60 * 60

RESULT_KINDS == {"StreamingResult", "json", "other"}

MediaType(result_kind) ==
    IF result_kind = "StreamingResult" THEN "text/event-stream" ELSE "application/json"

\* if not user_id:
IsNewUser(user_id) == user_id = None \/ user_id = EmptyStr

SetCookieAlways(is_new_user, user_id) ==
    [key |-> "user_id", value |-> user_id, max_age |-> ONE_YEAR,
     httponly |-> TRUE, samesite |-> "lax"]

\* if is_new_user: response.set_cookie(...)
SetCookie(is_new_user, user_id) ==
    IF is_new_user
    THEN [key |-> "user_id", value |-> user_id, max_age |-> ONE_YEAR,
          httponly |-> TRUE, samesite |-> "lax"]
    ELSE None

\* the handler, for a request whose user_id cookie is `cookie` (None: no such
\* cookie) and whose processing gives a result of kind result_kind
chatkit_endpoint(sender, cookie, result_kind) ==
    LET is_new_user == IsNewUser(cookie)
        user_id == IF is_new_user THEN Uuid(uuid_counter + 1) ELSE cookie
    IN  [ sender |-> sender,
          cookie |-> cookie,
          is_new_user |-> is_new_user,
          context_user_id |-> user_id,
          media_type |-> MediaType(result_kind),
          set_cookie |-> SetCookie(is_new_user, user_id) ]

HandleChatkit(handled) ==
    /\ requests' = Append(requests, handled)
    /\ uuid_counter' = IF handled.is_new_user THEN uuid_counter + 1 ELSE uuid_counter

\* a browser sends the cookie it holds and keeps the one it is given
BrowserRequest(result_kind) ==
    /\ Len(requests) < MaxRequests
    /\ LET handled == chatkit_endpoint("browser", cookie_jar, result_kind)
       IN  /\ HandleChatkit(handled)
           /\ cookie_jar' = IF handled.set_cookie # None
                            THEN handled.set_cookie.value ELSE cookie_jar
    /\ UNCHANGED <<environ, store_vars, relay_vars, file_calls>>

FOREIGN_COOKIES == {None, EmptyStr, [str |-> "forged"]}

\* any other client, with any cookie
OtherRequest(cookie, result_kind) ==
    /\ Len(requests) < MaxRequests
    /\ cookie \in FOREIGN_COOKIES \cup {Uuid(n) : n \in 1..uuid_counter}
    /\ HandleChatkit(chatkit_endpoint("other", cookie, result_kind))
    /\ UNCHANGED <<environ, store_vars, relay_vars, cookie_jar, file_calls>>

----------------------------------------------------------------------------
(* main.py: get_container_file_content *)

ORIGIN_ANSWERS ==
    { [status |-> 200, content |-> "bytes"],
      [status |-> 404],
      [status |-> 500],
      [exception |-> "timeout"] }

IsSuccess(answer) == Has(answer, "status") /\ answer.status \in 200..299

ErrorStatusAlways400(answer) == HTTP_400

\* except httpx.HTTPStatusError as e: ... status_code=e.response.status_code
\* except Exception as e: ... status_code=400
ErrorStatus(answer) == IF Has(answer, "status") THEN answer.status ELSE HTTP_400

JSONError(message, status_code) ==
    [kind |-> "json", error |-> message, status_code |-> status_code]

Attachment(content, filename) ==
    [kind |-> "attachment", status_code |-> 200, content |-> content,
     media_type |-> "application/octet-stream", filename |-> filename]

\* the handler: `answer` is what the origin service does if it is asked
get_container_file_content(filename, answer) ==
    IF ApiKeyMissing
    THEN [sent |-> FALSE, origin |-> None, key_missing |-> TRUE,
          response |-> JSONError("OPENAI_API_KEY not set", HTTP_400)]
    ELSE [sent |-> TRUE, origin |-> answer, key_missing |-> FALSE,
          response |-> IF IsSuccess(answer)
                       THEN Attachment(answer.content, filename)
                       ELSE JSONError("request failed", ErrorStatus(answer))]

FileContentRequest(filename, answer) ==
    /\ Len(file_calls) < MaxFileCalls
    /\ file_calls' = Append(file_calls, get_container_file_content(filename, answer))
    /\ UNCHANGED <<environ, uuid_counter, store_vars, relay_vars, cookie_jar,
                   requests>>

----------------------------------------------------------------------------
(* Specifications *)

RelayIdle ==
    /\ pc = "IDLE"
    /\ context = "nobody"
    /\ agent_input = <<>>
    /\ produced = <<>>
    /\ event = None
    /\ out = <<>>
    /\ raw_responses = <<>>
    /\ container_files = <<>>
    /\ idx = 1
    /\ links = <<>>
    /\ upload = "idle"
    /\ results = <<>>
    /\ emitted = 0
    /\ extract_failed = FALSE
    /\ trace = <<>>
    /\ closed_at = None

HttpIdle ==
    /\ cookie_jar = None
    /\ requests = <<>>
    /\ file_calls = <<>>

\* one request to respond, on a thread longer than the window
Init ==
    /\ environ \in ENVIRONS
    /\ uuid_counter = 0
    /\ thread_exists = TRUE
    /\ thread_items = Items(MaxItems)
    /\ RelayIdle
    /\ HttpIdle

Next ==
    \/ \E ctx \in USERS : StartRespond(ctx)
    \/ StreamProduce
    \/ YieldEvent
    \/ StreamError
    \/ \E responses \in RAW_RESPONSES : StreamEnd(responses)
    \/ \E n \in 0..Len(ExtractContainerFiles(raw_responses)), raised \in BOOLEAN :
           Inspect(n, raised)
    \/ UploadCall
    \/ \E download \in DOWNLOAD_OUTCOMES, put \in PUT_OUTCOMES : UploadReturn(download, put)
    \/ EmitAdded
    \/ EmitDone
    \/ Finish
    \/ Close

Spec == Init /\ [][Next]_vars

\* a step respond takes by itself: the consumer asks for more, the stream ends,
\* a call returns
RespondStep ==
    \/ YieldEvent
    \/ \E responses \in RAW_RESPONSES : StreamEnd(responses)
    \/ \E n \in 0..Len(ExtractContainerFiles(raw_responses)), raised \in BOOLEAN :
           Inspect(n, raised)
    \/ UploadCall
    \/ \E download \in DOWNLOAD_OUTCOMES, put \in PUT_OUTCOMES : UploadReturn(download, put)
    \/ EmitAdded
    \/ EmitDone
    \/ Finish

Fairness == WF_vars(RespondStep)

LiveSpec == Init /\ [][Next]_vars /\ Fairness

\* the store and the start of respond
StoreInit ==
    /\ environ \in ENVIRONS
    /\ uuid_counter = 0
    /\ thread_exists = FALSE
    /\ thread_items = <<>>
    /\ RelayIdle
    /\ HttpIdle

StoreNext ==
    \/ create_thread
    \/ add_thread_item
    \/ delete_thread
    \/ \E ctx \in USERS : StartRespond(ctx)

StoreSpec == StoreInit /\ [][StoreNext]_vars

\* the two HTTP endpoints
HttpInit ==
    /\ environ \in ENVIRONS
    /\ uuid_counter = 0
    /\ thread_exists = FALSE
    /\ thread_items = <<>>
    /\ RelayIdle
    /\ cookie_jar \in {None, EmptyStr, [str |-> "stale"]}
    /\ requests = <<>>
    /\ file_calls = <<>>

HttpNext ==
    \/ \E k \in RESULT_KINDS : BrowserRequest(k)
    \/ \E c \in FOREIGN_COOKIES \cup {Uuid(n) : n \in 1..MaxRequests}, k \in RESULT_KINDS :
           OtherRequest(c, k)
    \/ \E f \in {"download", "a.csv"}, a \in ORIGIN_ANSWERS : FileContentRequest(f, a)

HttpSpec == HttpInit /\ [][HttpNext]_vars

----------------------------------------------------------------------------
(* Properties *)

IsUploadOp(o) == o.op \in {"upload_call", "GET", "put", "upload_return"}
IsCallOrReturn(o) == o.op \in {"upload_call", "upload_return"}
IsSourceYield(o) == o.op = "yield" /\ IsSourceEvent(o.event)
IsSynthYield(o) == o.op = "yield" /\ ~IsSourceEvent(o.event)
IsStoreRead(o) == o.op = "load_thread_items"

SomeUrl == \E i \in 1..Len(results) : results[i] # None

\* what respond has yielded beyond the source events
Synthesized == SubSeq(out, Len(produced) + 1, Len(out))

UploadsOver == pc \in {"EMIT_SYNTHESIZED", "SKIP", "DONE"}

\* C1: respond yields every event of the agent stream exactly once, unchanged
\* and in arrival order; the only event not yet yielded is the one respond has
\* just received, and synthesized events come after all source events.
C1_RelayInOrder ==
    /\ event # None =>
           /\ Len(out) = Len(produced) - 1
           /\ out = SubSeq(produced, 1, Len(produced) - 1)
           /\ event = produced[Len(produced)]
    /\ event = None =>
           /\ Len(out) = Len(produced) + emitted
           /\ SubSeq(out, 1, Len(produced)) = produced
    /\ emitted > 0 => pc \notin {"IDLE", "STREAMING"}

C1_Witness ==
    /\ pc = "DONE"
    /\ emitted = 2
    /\ Len(produced) = 2
    /\ produced[1] # produced[2]
    /\ Len(out) = 4

\* C2: a synthesized download-links item is emitted only if some upload
\* returned a URL; a finished response whose uploads returned a URL ends with
\* exactly one ThreadItemAddedEvent immediately followed by one
\* ThreadItemDoneEvent for the same item, and a finished response with no
\* citation or no successful upload consists of the relayed events only.
C2_SynthesizedIffUrl ==
    /\ emitted > 0 => SomeUrl
    /\ Len(Synthesized) = emitted
    /\ pc = "DONE" /\ SomeUrl =>
           /\ Len(Synthesized) = 2
           /\ Synthesized[1].type = "ThreadItemAddedEvent"
           /\ Synthesized[2].type = "ThreadItemDoneEvent"
           /\ Synthesized[1].item = Synthesized[2].item
           /\ Synthesized[1].item.id.prefix = "dl_"
    /\ pc = "DONE" /\ ~SomeUrl => out = produced

C2_Witness ==
    /\ pc = "DONE"
    /\ Len(produced) >= 1
    /\ Len(results) >= 1
    /\ \A i \in 1..Len(results) : results[i] # None
    /\ Len(out) = Len(produced) + 2

RECURSIVE LinksFor(_, _)
LinksFor(files, returned) ==
    IF returned = <<>> THEN <<>>
    ELSE LET n == Len(returned)
             before == LinksFor(files, SubSeq(returned, 1, n - 1))
         IN  IF returned[n] = None THEN before
             ELSE Append(before, [filename |-> files[n].filename, url |-> returned[n]])

\* C3: a failed upload neither fails the response nor stops the remaining
\* uploads: once the upload loop is over every found citation has been
\* attempted, the links are exactly those of the successful uploads in citation
\* order, and the synthesized message carries exactly these links.
C3_FailedUploadSkipped ==
    /\ Len(results) <= Len(container_files)
    /\ links = LinksFor(container_files, results)
    /\ UploadsOver => Len(results) = Len(container_files)
    /\ UploadsOver =>
           Len(SelectSeq(trace, LAMBDA o : o.op = "upload_call")) = Len(container_files)
    /\ pc = "FAILED" => results = <<>>
    /\ emitted > 0 =>
           out[Len(produced) + 1].item.content[1].text.links
               = LinksFor(container_files, results)

C3_Witness ==
    /\ pc = "DONE"
    /\ Len(container_files) = 2
    /\ Len(results) = 2
    /\ results[1] # None
    /\ results[2] = None
    /\ emitted = 2
    /\ Len(out[Len(out)].item.content[1].text.links) = 1

\* the places of raw_responses that hold a complete container file citation
CitationPlaces(responses) ==
    { <<r, o, c, a>> \in (1..Len(responses)) \X (1..2) \X (1..3) \X (1..4) :
        /\ Has(responses[r], "output") /\ o <= Len(responses[r].output)
        /\ Has(responses[r].output[o], "content")
        /\ c <= Len(responses[r].output[o].content)
        /\ Has(responses[r].output[o].content[c], "annotations")
        /\ a <= Len(responses[r].output[o].content[c].annotations)
        /\ IsContainerFile(responses[r].output[o].content[c].annotations[a]) }

CitationAt(responses, p) ==
    responses[p[1]].output[p[2]].content[p[3]].annotations[p[4]]

DistinctCitations(responses) ==
    { <<CitationAt(responses, p).container_id, CitationAt(responses, p).file_id>> :
        p \in CitationPlaces(responses) }

\* C4 as stated: one upload attempt for each distinct (container id, file id).
C4_OncePerDistinctCitation ==
    UploadsOver /\ ~extract_failed =>
        Len(results) = Cardinality(DistinctCitations(raw_responses))

\* C4, amended: the relay invokes the collaborator once for each occurrence of
\* a citation in the raw responses; a citation that occurs k times causes k
\* upload attempts, each for that container id and file id.
C4_OncePerOccurrence ==
    UploadsOver /\ ~extract_failed =>
        LET gets == SelectSeq(trace, LAMBDA o : o.op = "GET")
            calls == SelectSeq(trace, LAMBDA o : o.op = "upload_call")
        IN  /\ Len(calls) = Cardinality(CitationPlaces(raw_responses))
            /\ Len(results) = Cardinality(CitationPlaces(raw_responses))
            /\ \A k \in DistinctCitations(raw_responses) :
                   ~ApiKeyMissing =>
                       Cardinality({i \in 1..Len(gets) :
                                       <<gets[i].container_id, gets[i].file_id>> = k})
                         = Cardinality({p \in CitationPlaces(raw_responses) :
                               <<CitationAt(raw_responses, p).container_id,
                                 CitationAt(raw_responses, p).file_id>> = k})

C4_Witness ==
    /\ pc = "DONE"
    /\ ~extract_failed
    /\ Len(container_files) = 2
    /\ container_files[1].container_id = container_files[2].container_id
    /\ container_files[1].file_id = container_files[2].file_id
    /\ Len(links) = 2

\* C5: once the consumer has gone away respond yields nothing more and makes no
\* further external call; a request closed while the source events were being
\* forwarded has made no download or blob upload at all.
C5_NothingAfterClose ==
    closed_at # None =>
        /\ pc = "CANCELLED"
        /\ Len(out) = closed_at.out
        /\ Len(trace) = closed_at.trace
        /\ closed_at.pc = "STREAMING" =>
               /\ \A i \in 1..Len(trace) : ~IsUploadOp(trace[i])
               /\ results = <<>>
               /\ emitted = 0

C5_Witness ==
    /\ closed_at # None
    /\ closed_at.pc = "STREAMING"
    /\ closed_at.out = 1
    /\ Len(produced) = 1

\* C6: the agent input is built from the min(30, k) most recent items of the
\* thread, oldest first, obtained by one store read with order "desc", limit 30
\* and no cursor.
C6_RecentItemsChronological ==
    pc = "STREAMING" =>
        LET k == Len(thread_items)
            m == IF k < 30 THEN k ELSE 30
        IN  /\ Len(agent_input) = m
            /\ \A i \in 1..m : agent_input[i].from_item = thread_items[k - m + i].id
            /\ Len(SelectSeq(trace, IsStoreRead)) = 1
            /\ trace[1] = [op |-> "load_thread_items", after |-> None,
                           limit |-> 30, order |-> "desc"]

C6_Witness ==
    /\ pc = "STREAMING"
    /\ Len(thread_items) = 45
    /\ Len(agent_input) = 30
    /\ agent_input[1].from_item = 16
    /\ agent_input[30].from_item = 45

PcSteps ==
    { <<"IDLE", "STREAMING">>,
      <<"STREAMING", "INSPECTING_ANNOTATIONS">>,
      <<"INSPECTING_ANNOTATIONS", "UPLOADING">>,
      <<"INSPECTING_ANNOTATIONS", "SKIP">>,
      <<"UPLOADING", "EMIT_SYNTHESIZED">>,
      <<"UPLOADING", "SKIP">>,
      <<"EMIT_SYNTHESIZED", "DONE">>,
      <<"SKIP", "DONE">>,
      <<"STREAMING", "FAILED">>,
      <<"STREAMING", "CANCELLED">>,
      <<"UPLOADING", "CANCELLED">>,
      <<"EMIT_SYNTHESIZED", "CANCELLED">> }

\* C7 as stated: every request reaches DONE.
C7_AlwaysDone == (pc = "STREAMING") ~> (pc = "DONE")

\* C7, amended: every request whose consumer stays connected and whose source
\* stream ends without raising reaches DONE, through STREAMING, INSPECTING_
\* ANNOTATIONS, the uploads and EMIT_SYNTHESIZED or SKIP; STREAMING is never
\* re-entered, and an error raised while inspecting the raw responses does not
\* prevent reaching DONE.
C7_DoneUnlessClosedOrStreamRaised ==
    /\ (pc = "STREAMING") ~> (pc \in {"DONE", "CANCELLED", "FAILED"})
    /\ [](extract_failed => pc # "FAILED")
    /\ [][pc' # pc => <<pc, pc'>> \in PcSteps]_vars

C7_Witness ==
    /\ pc = "DONE"
    /\ extract_failed
    /\ Len(results) >= 1
    /\ closed_at = None

\* C8: the file-content endpoint answers with the bytes as an attachment or
\* with a JSON error; when the origin service answers with an error status the
\* response is a JSON error with that status code, and without OPENAI_API_KEY
\* no request is sent to the origin and the error names the missing key.
C8_FileContent ==
    \A i \in 1..Len(file_calls) :
        LET call == file_calls[i]
            response == call.response
        IN  /\ response.kind \in {"attachment", "json"}
            /\ response.kind = "attachment" =>
                   /\ call.sent
                   /\ call.origin.status = 200
                   /\ response.content = call.origin.content
            /\ (call.sent /\ Has(call.origin, "status") /\ call.origin.status >= 400) =>
                   /\ response.kind = "json"
                   /\ response.status_code = call.origin.status
            /\ (~Has(environ, "OPENAI_API_KEY") \/ environ.OPENAI_API_KEY = "") =>
                   /\ ~call.sent
                   /\ response.kind = "json"
                   /\ response.error = "OPENAI_API_KEY not set"

C8_Witness ==
    /\ Len(file_calls) >= 1
    /\ file_calls[1].sent
    /\ file_calls[1].origin = [status |-> 404]
    /\ file_calls[1].response.kind = "json"
    /\ file_calls[1].response.status_code = 404

IssuedFresh(i) ==
    /\ \A j \in 1..(i - 1) : requests[j].context_user_id # requests[i].context_user_id
    /\ \A j \in 1..i : requests[j].cookie # requests[i].context_user_id
    /\ requests[i].set_cookie # None
    /\ requests[i].set_cookie.key = "user_id"
    /\ requests[i].set_cookie.value = requests[i].context_user_id
    /\ requests[i].set_cookie.max_age = 31536000

KeptIdentity(i) ==
    /\ requests[i].context_user_id = requests[i].cookie
    /\ requests[i].set_cookie = None

BrowserRequests == {i \in 1..Len(requests) : requests[i].sender = "browser"}

StableAfterFirst ==
    \A i, j \in BrowserRequests :
        (\E f \in BrowserRequests : f < i /\ f < j) =>
            requests[i].context_user_id = requests[j].context_user_id

\* C9 as stated: every request that carries a user_id cookie keeps its value.
C9_AnyCookieKept ==
    /\ \A i \in 1..Len(requests) :
           IF requests[i].cookie = None THEN IssuedFresh(i) ELSE KeptIdentity(i)
    /\ StableAfterFirst

\* C9, amended: a request without a user_id cookie, or with an empty one, gets
\* a freshly generated identifier, passed as context["user_id"] and set as a
\* user_id cookie with a 1-year max age; a request with a non-empty user_id
\* cookie is processed under exactly that value and no cookie is set; a client
\* that returns the cookie it received is processed under one identity in every
\* request after its first.
C9_IdentityStable ==
    /\ \A i \in 1..Len(requests) :
           IF requests[i].cookie = None \/ requests[i].cookie = EmptyStr
           THEN IssuedFresh(i) ELSE KeptIdentity(i)
    /\ StableAfterFirst

C9_Witness ==
    /\ Len(requests) = 3
    /\ \A i \in 1..3 : requests[i].sender = "browser"
    /\ requests[1].cookie = None
    /\ requests[1].set_cookie # None
    /\ requests[2].cookie = requests[1].set_cookie.value
    /\ requests[3].context_user_id = requests[1].context_user_id
    /\ requests[3].set_cookie = None

CallsAndReturns == SelectSeq(trace, IsCallOrReturn)

\* C10: within a request the store read comes first and the agent-runner call
\* second, each once; no upload starts before every source event has been
\* yielded; uploads run one at a time in citation order, each call returning
\* before the next is made; the synthesized events come after the last upload.
C10_Sequential ==
    /\ trace # <<>> =>
           /\ Len(trace) >= 2
           /\ trace[1].op = "load_thread_items"
           /\ trace[2].op = "run_streamed"
           /\ \A i \in 3..Len(trace) :
                  trace[i].op \notin {"load_thread_items", "run_streamed"}
    /\ \A i, j \in 1..Len(trace) :
           i < j =>
               /\ IsUploadOp(trace[i]) => ~IsSourceYield(trace[j])
               /\ IsSynthYield(trace[i]) => ~IsUploadOp(trace[j]) /\ ~IsSourceYield(trace[j])
    /\ (\E i \in 1..Len(trace) : IsUploadOp(trace[i])) =>
           /\ event = None
           /\ Len(SelectSeq(trace, IsSourceYield)) = Len(produced)
    /\ \A k \in 1..Len(CallsAndReturns) :
           /\ CallsAndReturns[k].op = (IF k % 2 = 1 THEN "upload_call" ELSE "upload_return")
           /\ CallsAndReturns[k].i = (k + 1) \div 2
    /\ \A i \in 1..Len(trace) :
           trace[i].op \in {"GET", "put"} =>
               /\ Len(SelectSeq(SubSeq(trace, 1, i), IsCallOrReturn)) % 2 = 1
    /\ (\E i \in 1..Len(trace) : IsSynthYield(trace[i])) =>
           Len(CallsAndReturns) = 2 * Len(container_files)

C10_Witness ==
    /\ pc = "DONE"
    /\ emitted = 2
    /\ Len(produced) >= 1
    /\ Len(results) = 2
    /\ \E i \in 1..Len(trace) : trace[i].op = "put"

====
